---- MODULE Spec2Model ----
(***************************************************************************)
(* Model of internal/backend/sqlite/sqlite.go: the SQLite storage backend  *)
(* of the yans news server.  The store is three tables (articles,          *)
(* articles_to_groups, attachments_articles_mapping) plus the static       *)
(* groups table.  Every SQL statement is one atomic step; a Go method that *)
(* issues several statements is a sequence of steps that other callers may *)
(* interleave with.                                                        *)
(***************************************************************************)
EXTENDS Integers, Sequences, FiniteSets, TLC

VARIABLES
    articles,      \* table articles, in rowid order
    atg,           \* table articles_to_groups, in rowid order
    attachments,   \* table attachments_articles_mapping, in rowid order
    pc,            \* position of each SaveArticle caller
    call,          \* arguments and locals of each caller's SaveArticle call
    startedAfter,  \* history: per article id, the calls that had returned when its call started
    rd,            \* the reading caller: its operation, arguments, locals and result
    plan,          \* the table the store scans first when it joins articles with articles_to_groups
    groups         \* table groups: written outside this file, never changed here

vars == <<articles, atg, attachments, pc, call, startedAfter, rd, plan, groups>>

\* ---------------------------------------------------------------- bounds
\* Number of SaveArticle calls (article rows) explored.
MaxArticles == 2
\* Largest article number passed to a read operation.
MaxNum == 3

\* Goroutines calling SaveArticle concurrently.
Procs == {"p1", "p2"}

\* ---------------------------------------------------------------- helpers
Range(s) == {s[i] : i \in 1..Len(s)}


SetMax(S) == CHOOSE x \in S : \A y \in S : y <= x
SetMin(S) == CHOOSE x \in S : \A y \in S : x <= y

\* strings.TrimSpace on a name given as a tuple of one-character strings
RECURSIVE TrimLeft(_)
TrimLeft(s) == IF s # <<>> /\ Head(s) = " " THEN TrimLeft(Tail(s)) ELSE s
RECURSIVE TrimRight(_)
TrimRight(s) ==
    IF s # <<>> /\ s[Len(s)] = " " THEN TrimRight(SubSeq(s, 1, Len(s) - 1)) ELSE s
TrimSpace(s) == TrimRight(TrimLeft(s))

\* ---------------------------------------------------------------- groups table
\* The names a group can carry, as sequences of characters; the group named
\* GroupNames[id] has the id id.
GroupNames ==
    << << "a" >>, << "b" >>, << "a", "b" >>,
       << "a", "l", "t", ".", "t", "e", "s", "t" >>,
       << "a", "l", "t", ".", "b", "i", "n", "a", "r", "i", "e", "s", ".", "p", "i", "c", "t", "u", "r", "e", "s" >> >>
\* The groups table that holds the groups ids.
GroupsTable(ids) == { [id |-> id, group_name |-> GroupNames[id]] : id \in ids }
GroupIDs == {g.id : g \in groups}

\* SELECT * FROM groups WHERE group_name = ?   (the set of matching rows)
GetGroup(groupName) == {g \in groups : g.group_name = groupName}

\* Group lists passed to SaveArticle.
GroupLists ==
    { << <<"a">> >>,
      << <<" ", "a">>, <<"b">> >>,
      << <<"b">>, <<"a">> >>,
      << <<"a", " ">>, <<"x">> >>,
      << <<"a">>, <<"a">> >> }

\* Attachment lists (a.Attachments) passed to SaveArticle.
AttLists == { <<>>, <<"f1">> }

\* ---------------------------------------------------------------- numbering
\* Numbers held in a group.
NumbersOf(gid) == {r.article_number : r \in {x \in Range(atg) : x.group_id = gid}}

\* Calls that are between their first statement and their return.
InFlight == {p \in Procs : pc[p] \in {"resolve", "members", "attach"}}
\* Articles whose SaveArticle call has returned.
Returned == (1..Len(articles)) \ {call[p].articleID : p \in InFlight}

\* Mutant: the maximum is read from a snapshot without the rows of calls still running.
NextNumber_Snapshot(gid) ==
    LET seen == {r.article_number :
                    r \in {x \in Range(atg) : x.group_id = gid /\ x.article_id \in Returned}} IN
    IF seen = {} THEN 1 ELSE SetMax(seen) + 1

\* Mutant: the subquery lacks WHERE group_id = ?.
NextNumber_AnyGroup(gid) ==
    IF atg = <<>> THEN 1 ELSE SetMax({r.article_number : r \in Range(atg)}) + 1

\* Mutant: ifnull(max(article_number), 1), the increment forgotten.
NextNumber_NoIncrement(gid) ==
    IF NumbersOf(gid) = {} THEN 1 ELSE SetMax(NumbersOf(gid))

\* (SELECT ifnull(max(article_number)+1, 1) FROM articles_to_groups WHERE group_id = ?)
NextNumber(gid) == IF NumbersOf(gid) = {} THEN 1 ELSE SetMax(NumbersOf(gid)) + 1

NoCall == [groups |-> <<>>, atts |-> <<>>, articleID |-> 0, i |-> 0,
           groupIDs |-> <<>>, err |-> "nil"]
NoRead == [op |-> "none", pc |-> "idle", g |-> 0, low |-> 0, high |-> 0,
           res |-> <<>>, i |-> 0, err |-> "nil", msgid |-> <<>>, after |-> {},
           pattern |-> <<>>]

Init ==
    /\ articles = <<>>
    /\ atg = <<>>
    /\ attachments = <<>>
    /\ pc = [p \in Procs |-> "idle"]
    /\ call = [p \in Procs |-> NoCall]
    /\ startedAfter = <<>>
    /\ rd = NoRead
    /\ plan = "articles"
    /\ groups = GroupsTable({1, 2})

\* ---------------------------------------------------------------- SaveArticle
\* Where SaveArticle continues once the resolution loop (108-119) is over,
\* and once the membership loop (121-126) is over.
AfterMembers(c) == IF c.atts # <<>> THEN "attach" ELSE "done"
AfterResolve(c) == IF c.groupIDs # <<>> THEN "members" ELSE AfterMembers(c)

\* The call of p moves to position q with locals c; "done" is the return
\* of SaveArticle, with c.err the value returned, arguments and locals gone.
Goto(p, q, c) ==
    /\ pc' = [pc EXCEPT ![p] = q]
    /\ call' = [call EXCEPT ![p] =
                   IF q = "done"
                   THEN [NoCall EXCEPT !.articleID = c.articleID, !.err = c.err]
                   ELSE c]

\* The absent thread key (a NULL thread column).
NULL == <<>>
\* The Message-Id the caller puts into the header of the article stored as
\* row id: callers supply a Message-Id that no other article carries.
MessageID(id) == <<"m", id>>
\* json_extract(articles.header, '$.Message-Id[0]')
MessageIDOf(row) == row.header.MessageId[1]
\* created_at of the newest article row; the column is filled by the store.
LastCreated == IF articles = <<>> THEN 0 ELSE articles[Len(articles)].created_at

\* line 101-105: INSERT INTO articles succeeds; articleID is the new rowid.
\* a.Thread is NULL or the Message-Id of a stored article taken from threads;
\* the store's clock has advanced by one of ticks since the last insert; at
\* most max article rows are explored.
SaveArticle_InsertArticleOf(p, lists, attLists, threads, ticks, max) ==
    /\ pc[p] \in {"idle", "done"}
    /\ Len(articles) < max
    /\ \E gl \in lists, al \in attLists, tick \in ticks,
          th \in {NULL} \cup (threads \cap {MessageIDOf(articles[k]) : k \in 1..Len(articles)}) :
         LET id == Len(articles) + 1
             c  == [groups |-> gl, atts |-> al, articleID |-> id,
                    i |-> 1, groupIDs |-> <<>>, err |-> "nil"] IN
         /\ articles' = Append(articles, [id |-> id,
                                          header |-> [MessageId |-> << MessageID(id) >>],
                                          thread |-> th,
                                          created_at |-> LastCreated + tick])
         /\ startedAfter' = Append(startedAfter, Returned)
         /\ Goto(p, IF gl # <<>> THEN "resolve" ELSE AfterResolve(c), c)
    /\ UNCHANGED <<atg, attachments, rd, plan, groups>>

\* The same for root articles (a.Thread NULL) saved at distinct times.
SaveArticle_InsertArticle(p, lists, attLists) ==
    SaveArticle_InsertArticleOf(p, lists, attLists, {}, {1}, MaxArticles)

\* line 101-102: the INSERT fails, res is nil and res.LastInsertId() panics.
SaveArticle_InsertArticleFails(p) ==
    /\ pc[p] \in {"idle", "done"}
    /\ Goto(p, "panic", NoCall)
    /\ UNCHANGED <<articles, atg, attachments, startedAfter, rd, plan, groups>>

\* Mutant: one loop that inserts the membership as soon as a name resolves.
SaveArticle_GetGroup_Insert(p, outcomes) ==
    /\ pc[p] = "resolve"
    /\ LET c    == call[p]
           v    == TrimSpace(c.groups[c.i])
           rows == GetGroup(v) IN
       \E storeOK \in outcomes :
         IF ~storeOK
         THEN Goto(p, "done", [c EXCEPT !.err = "store error"]) /\ UNCHANGED atg
         ELSE IF rows = {}
         THEN Goto(p, "done", [c EXCEPT !.err = "no such newsgroup"]) /\ UNCHANGED atg
         ELSE \E g \in rows :
                LET d == [c EXCEPT !.i = @ + 1] IN
                /\ atg' = Append(atg, [article_id |-> c.articleID,
                                       article_number |-> NextNumber(g.id),
                                       group_id |-> g.id])
                /\ IF d.i <= Len(d.groups)
                   THEN Goto(p, "resolve", d)
                   ELSE Goto(p, AfterMembers(d), [d EXCEPT !.i = 1])
    /\ UNCHANGED <<articles, attachments, startedAfter, rd, plan, groups>>

\* line 108-119: one iteration of the name-resolution loop.
SaveArticle_GetGroup(p, outcomes) ==
    /\ pc[p] = "resolve"
    /\ LET c    == call[p]
           v    == TrimSpace(c.groups[c.i])
           rows == GetGroup(v) IN
       \E storeOK \in outcomes :
         IF ~storeOK
         THEN Goto(p, "done", [c EXCEPT !.err = "store error"])
         ELSE IF rows = {}
         THEN Goto(p, "done", [c EXCEPT !.err = "no such newsgroup"])
         ELSE \E g \in rows :
                LET d == [c EXCEPT !.groupIDs = Append(@, g.id), !.i = @ + 1] IN
                IF d.i <= Len(d.groups)
                THEN Goto(p, "resolve", d)
                ELSE Goto(p, AfterResolve(d), [d EXCEPT !.i = 1])
    /\ UNCHANGED <<articles, atg, attachments, startedAfter, rd, plan, groups>>

\* The table articles_to_groups as the data model describes it: a membership
\* is a triple (article, group, number) whose number is unique in the group;
\* no uniqueness of (article_id, group_id) is stated, so a second membership
\* of an article in a group is no constraint violation.
ConstraintViolated(article_id, group_id) == FALSE

\* Mutant: INSERT OR REPLACE keyed by article_id, which deletes the article's
\* earlier membership.
SaveArticle_InsertMembership_Replace(p, outcomes) ==
    /\ pc[p] = "members"
    /\ LET c == call[p]
           v == c.groupIDs[c.i] IN
       \E storeOK \in outcomes :
         IF ~storeOK
         THEN /\ Goto(p, "done", [c EXCEPT !.err = "store error"])
              /\ UNCHANGED atg
         ELSE /\ atg' = Append(SelectSeq(atg, LAMBDA r : r.article_id # c.articleID),
                               [article_id |-> c.articleID,
                                article_number |-> NextNumber(v),
                                group_id |-> v])
              /\ IF c.i < Len(c.groupIDs)
                 THEN Goto(p, "members", [c EXCEPT !.i = @ + 1])
                 ELSE Goto(p, AfterMembers(c), [c EXCEPT !.i = 1])
    /\ UNCHANGED <<articles, attachments, startedAfter, rd, plan, groups>>

\* line 121-126: one iteration of the membership loop.  The statement reads
\* max(article_number) of the group and inserts in one atomic step.
SaveArticle_InsertMembership(p, outcomes) ==
    /\ pc[p] = "members"
    /\ LET c == call[p]
           v == c.groupIDs[c.i] IN
       \E storeOK \in outcomes :
         IF ~storeOK \/ ConstraintViolated(c.articleID, v)
         THEN /\ Goto(p, "done", [c EXCEPT !.err = "store error"])
              /\ UNCHANGED atg
         ELSE /\ atg' = Append(atg, [article_id |-> c.articleID,
                                     article_number |-> NextNumber(v),
                                     group_id |-> v])
              /\ IF c.i < Len(c.groupIDs)
                 THEN Goto(p, "members", [c EXCEPT !.i = @ + 1])
                 ELSE Goto(p, AfterMembers(c), [c EXCEPT !.i = 1])
    /\ UNCHANGED <<articles, attachments, startedAfter, rd, plan, groups>>

\* line 129-136: one iteration of the attachment loop; after the last one
\* SaveArticle returns err, which is nil here.
SaveArticle_InsertAttachment(p, outcomes) ==
    /\ pc[p] = "attach"
    /\ LET c == call[p]
           v == c.atts[c.i] IN
       \E storeOK \in outcomes :
         IF ~storeOK
         THEN /\ Goto(p, "done", [c EXCEPT !.err = "store error"])
              /\ UNCHANGED attachments
         ELSE /\ attachments' = Append(attachments, [article_id |-> c.articleID,
                                                     attachment_id |-> v])
              /\ IF c.i < Len(c.atts)
                 THEN Goto(p, "attach", [c EXCEPT !.i = @ + 1])
                 ELSE Goto(p, "done", c)
    /\ UNCHANGED <<articles, atg, startedAfter, rd, plan, groups>>

SaveArticle(p, lists, attLists, outcomes) ==
    \/ SaveArticle_InsertArticle(p, lists, attLists)
    \/ SaveArticle_GetGroup(p, outcomes)
    \/ SaveArticle_InsertMembership(p, outcomes)
    \/ SaveArticle_InsertAttachment(p, outcomes)

\* ---------------------------------------------------------------- queries
\* Rows of articles_to_groups of one group, in rowid order.
RowsOf(gid) == SelectSeq(atg, LAMBDA r : r.group_id = gid)

\* ORDER BY atg.article_number (ascending)
OrderByNumber(rows) == SortSeq(rows, LAMBDA x, y : x.article_number < y.article_number)

\* line 77: SELECT COUNT(*) FROM articles_to_groups WHERE group_id = ?
GetArticlesCount(gid) == Len(RowsOf(gid))

\* line 82: SELECT COALESCE(max(article_number), 0) ... WHERE group_id = ?
GetGroupHighWaterMark(gid) ==
    IF RowsOf(gid) = <<>> THEN 0
    ELSE SetMax({r.article_number : r \in Range(RowsOf(gid))})

\* Mutant: line 87 copied from line 82 with max left in place.
GetGroupLowWaterMark_Max(gid) ==
    IF RowsOf(gid) = <<>> THEN 0
    ELSE SetMax({r.article_number : r \in Range(RowsOf(gid))})

\* line 87: SELECT COALESCE(min(article_number), 0) ... WHERE group_id = ?
GetGroupLowWaterMark(gid) ==
    IF RowsOf(gid) = <<>> THEN 0
    ELSE SetMin({r.article_number : r \in Range(RowsOf(gid))})

\* The article_number column of a row sequence.
NumberColumn(rows) == [k \in 1..Len(rows) |-> rows[k].article_number]

\* Mutant: the two-sided case closed, as in GetArticlesByRange.
GetArticleNumbers_Closed(gid, low, high) ==
    IF high = 0 /\ low = 0
    THEN NumberColumn(RowsOf(gid))
    ELSE IF low = -1 /\ high # 0
    THEN NumberColumn(SelectSeq(RowsOf(gid), LAMBDA r : r.article_number = high))
    ELSE IF low # 0 /\ high = -1
    THEN NumberColumn(SelectSeq(RowsOf(gid), LAMBDA r : r.article_number > low))
    ELSE IF low = -1 /\ high = -1
    THEN <<>>
    ELSE NumberColumn(SelectSeq(RowsOf(gid),
             LAMBDA r : r.article_number >= low /\ r.article_number <= high))

\* line 165-189: the numbers selected by GetArticleNumbers, in rowid order.
GetArticleNumbers(gid, low, high) ==
    IF high = 0 /\ low = 0
    THEN NumberColumn(RowsOf(gid))
    ELSE IF low = -1 /\ high # 0
    THEN NumberColumn(SelectSeq(RowsOf(gid), LAMBDA r : r.article_number = high))
    ELSE IF low # 0 /\ high = -1
    THEN NumberColumn(SelectSeq(RowsOf(gid), LAMBDA r : r.article_number > low))
    ELSE IF low = -1 /\ high = -1
    THEN <<>>
    ELSE NumberColumn(SelectSeq(RowsOf(gid),
             LAMBDA r : r.article_number > low /\ r.article_number < high))

\* line 155: rows joined for GetArticleByNumber
ByNumberRows(gid, num) == SelectSeq(RowsOf(gid), LAMBDA r : r.article_number = num)

\* Mutant: article_number <= ?, which lets the article itself through.
LastRows_OrEqual(gid, num) == SelectSeq(RowsOf(gid), LAMBDA r : r.article_number <= num)

\* line 193: rows joined for GetLastArticleByNum, before ORDER BY ... DESC LIMIT 1
LastRows(gid, num) == SelectSeq(RowsOf(gid), LAMBDA r : r.article_number < num)

\* line 204: rows joined for GetNextArticleByNum, before ORDER BY ... LIMIT 1
NextRows(gid, num) == SelectSeq(RowsOf(gid), LAMBDA r : r.article_number > num)

\* line 193: ... ORDER BY atg.article_number DESC LIMIT 1 (the rows that may come first)
LastArticleRows(gid, num) ==
    {r \in Range(LastRows(gid, num)) :
        \A x \in Range(LastRows(gid, num)) : x.article_number <= r.article_number}

\* line 204: ... ORDER BY atg.article_number LIMIT 1 (the rows that may come first)
NextArticleRows(gid, num) ==
    {r \in Range(NextRows(gid, num)) :
        \A x \in Range(NextRows(gid, num)) : x.article_number >= r.article_number}

\* Mutant: the open interval of GetArticleNumbers.
RangeRows_Open(gid, low, high) ==
    OrderByNumber(SelectSeq(RowsOf(gid),
        LAMBDA r : r.article_number > low /\ r.article_number < high))

\* line 216: the rows selected by GetArticlesByRange, ordered
RangeRows(gid, low, high) ==
    OrderByNumber(SelectSeq(RowsOf(gid),
        LAMBDA r : r.article_number >= low /\ r.article_number <= high))

\* line 196, 207, 220: SELECT article_number FROM articles_to_groups WHERE article_id = ?
\* The statement names no group and no order: any row of the article may come first.
NumberRowsOfArticle(id) == {r \in Range(atg) : r.article_id = id}

\* line 147, 159: SELECT content_type, attachment_id ... WHERE article_id = ?
AttachmentsOf(id) ==
    LET rows == SelectSeq(attachments, LAMBDA r : r.article_id = id) IN
    [k \in 1..Len(rows) |-> rows[k].attachment_id]

\* An article as a read returns it: its row id and its ArticleNumber field.
Article(id, number) == [ID |-> id, ArticleNumber |-> number]

\* The tables the store can scan first when it evaluates
\* articles INNER JOIN articles_to_groups; the choice is the same for every
\* query on an unchanged store.
Plans == {"articles", "atg"}

\* The membership rows in the order a scan of articles meets them.
RECURSIVE JoinFrom(_)
JoinFrom(id) ==
    IF id > Len(articles) THEN <<>>
    ELSE SelectSeq(atg, LAMBDA r : r.article_id = id) \o JoinFrom(id + 1)

\* line 239, 245: articles INNER JOIN articles_to_groups atg
\*                ON atg.article_id = articles.id, in the order of the plan
Join ==
    LET rows == IF plan = "articles" THEN JoinFrom(1) ELSE atg IN
    [k \in 1..Len(rows) |-> [article |-> articles[rows[k].article_id], atg |-> rows[k]]]

\* SQL's = where NULL compares equal to NULL
SqlEq_NullEqual(x, y) == x = y

\* SQL's = : a comparison with NULL is never true
SqlEq(x, y) == x # NULL /\ y # NULL /\ x = y

\* The sort key of a joined row for an ORDER BY term.
SortKey(row, term) ==
    CASE term = "articles.created_at"      -> row.article.created_at
      [] term = "articles.created_at DESC" -> 0 - row.article.created_at
      [] term = "atg.article_number"       -> row.atg.article_number

\* ORDER BY term: rows with equal keys stay in the order the join produced them
OrderBy(rows, term) ==
    LET Pos(i) == Cardinality({ j \in 1..Len(rows) :
                        \/ SortKey(rows[j], term) < SortKey(rows[i], term)
                        \/ SortKey(rows[j], term) = SortKey(rows[i], term) /\ j < i }) + 1 IN
    [q \in 1..Len(rows) |-> rows[CHOOSE i \in 1..Len(rows) : Pos(i) = q]]

\* LIMIT limit OFFSET offset: a negative limit is no limit, a negative offset
\* is no offset
LimitOffset(rows, limit, offset) ==
    LET off  == IF offset < 0 THEN 0 ELSE offset
        rest == SubSeq(rows, off + 1, Len(rows)) IN
    IF limit < 0 \/ limit > Len(rest) THEN rest ELSE SubSeq(rest, 1, limit)

\* SELECT atg.article_number
JoinedNumberColumn(rows) == [k \in 1..Len(rows) |-> rows[k].atg.article_number]

\* line 239: WHERE atg.group_id = ? AND articles.thread IS NULL
NewThreadRows(gid) ==
    SelectSeq(Join, LAMBDA r : r.atg.group_id = gid /\ r.article.thread = NULL)

\* line 236-240: GetNewThreads
GetNewThreads(gid, perPage, pageNum) ==
    JoinedNumberColumn(LimitOffset(OrderBy(NewThreadRows(gid), "articles.created_at DESC"),
                                   perPage, perPage * pageNum))

\* line 245, the scalar subquery: the Message-Id of the article that holds
\* threadNum in the group, NULL when no row is selected
ThreadRoot(gid, threadNum) ==
    LET rows == SelectSeq(Join, LAMBDA r : /\ r.atg.group_id = gid
                                           /\ r.atg.article_number = threadNum) IN
    IF rows = <<>> THEN NULL ELSE MessageIDOf(rows[1].article)

\* line 245: WHERE atg.group_id = ? AND articles.thread = (the root's Message-Id)
ThreadRows(gid, threadNum) ==
    SelectSeq(Join, LAMBDA r : /\ r.atg.group_id = gid
                               /\ SqlEq(r.article.thread, ThreadRoot(gid, threadNum)))

\* GetThread ordering by article_number instead of created_at
GetThread_ByNumber(gid, threadNum) ==
    JoinedNumberColumn(OrderBy(ThreadRows(gid, threadNum), "atg.article_number"))

\* line 242-246: GetThread
GetThread(gid, threadNum) ==
    JoinedNumberColumn(OrderBy(ThreadRows(gid, threadNum), "articles.created_at"))

\* ---------------------------------------------------------------- group name patterns
\* The pieces of s between the occurrences of sep.
RECURSIVE SplitAt(_, _)
SplitAt(s, sep) ==
    IF \A k \in 1..Len(s) : s[k] # sep THEN << s >>
    ELSE LET k == SetMin({j \in 1..Len(s) : s[j] = sep}) IN
         << SubSeq(s, 1, k - 1) >> \o SplitAt(SubSeq(s, k + 1, Len(s)), sep)

\* The position of the "]" that closes the class opened at position i of p,
\* 0 when the class is not closed.
ClassEnd(p, i) ==
    LET ends == {k \in (i + 1)..Len(p) : p[k] = "]"} IN
    IF ends = {} THEN 0 ELSE SetMin(ends)

\* The brackets of p, read from position i, open and close classes in turn.
RECURSIVE WellFormedFrom(_, _)
WellFormedFrom(p, i) ==
    IF i > Len(p) THEN TRUE
    ELSE IF p[i] = "[" THEN ClassEnd(p, i) # 0 /\ WellFormedFrom(p, ClassEnd(p, i) + 1)
    ELSE IF p[i] = "]" THEN FALSE
    ELSE WellFormedFrom(p, i + 1)

\* utils.ParseWildmat: the comma-separated alternatives of the pattern, each
\* with its negation mark taken off; ParseError for a bracket without partner.
ParseWildmat(pattern) ==
    LET alts == SplitAt(pattern, ",")
        Negated(a) == a # <<>> /\ a[1] = "!"
        Body(a) == IF Negated(a) THEN Tail(a) ELSE a IN
    IF \E k \in 1..Len(alts) : ~WellFormedFrom(Body(alts[k]), 1)
    THEN [w |-> <<>>, err |-> "ParseError"]
    ELSE [w |-> [k \in 1..Len(alts) |->
                    [negated |-> Negated(alts[k]), pattern |-> Body(alts[k])]],
          err |-> "nil"]

\* The regular expression atoms for the wildmat text p read from position i:
\* * becomes "any run of characters", ? "any one character", a bracket
\* class a character set, any other character itself.
RECURSIVE Atoms(_, _)
Atoms(p, i) ==
    IF i > Len(p) THEN <<>>
    ELSE IF p[i] = "*" THEN << [kind |-> "run"] >> \o Atoms(p, i + 1)
    ELSE IF p[i] = "?" THEN << [kind |-> "one"] >> \o Atoms(p, i + 1)
    ELSE IF p[i] = "["
    THEN LET e   == ClassEnd(p, i)
             neg == i + 1 < e /\ p[i + 1] = "!"
             mem == {p[k] : k \in (IF neg THEN i + 2 ELSE i + 1)..(e - 1)} IN
         << [kind |-> "set", negated |-> neg, chars |-> mem] >> \o Atoms(p, e + 1)
    ELSE << [kind |-> "char", char |-> p[i]] >> \o Atoms(p, i + 1)

\* Wildmat.ToRegex: one anchored expression per alternative, in the order of
\* the pattern, each with its negation mark.
ToRegex(w) ==
    [r |-> [k \in 1..Len(w) |->
               [negated |-> w[k].negated, atoms |-> Atoms(w[k].pattern, 1)]],
     err |-> "nil"]

\* The atoms match the whole of s.
RECURSIVE AtomsMatch(_, _)
AtomsMatch(atoms, s) ==
    IF atoms = <<>> THEN s = <<>>
    ELSE LET a == Head(atoms) IN
         IF a.kind = "run"
         THEN AtomsMatch(Tail(atoms), s) \/ (s # <<>> /\ AtomsMatch(atoms, Tail(s)))
         ELSE /\ s # <<>>
              /\ CASE a.kind = "one"  -> TRUE
                   [] a.kind = "set"  -> (Head(s) \in a.chars) # a.negated
                   [] a.kind = "char" -> Head(s) = a.char
              /\ AtomsMatch(Tail(atoms), Tail(s))

\* line 26-28: regexHelper, the REGEXP function of the store: the expression
\* built by ToRegex matches s when the last alternative that matches s is
\* not a negated one.
regexHelper(re, s) ==
    LET hits == {k \in 1..Len(re) : AtomsMatch(re[k].atoms, s)} IN
    hits # {} /\ ~re[SetMax(hits)].negated

\* The rows of the groups table in rowid order.
RECURSIVE GroupRowsFrom(_)
GroupRowsFrom(id) ==
    IF id > Len(GroupNames) THEN <<>>
    ELSE (IF \E g \in groups : g.id = id
          THEN << CHOOSE g \in groups : g.id = id >> ELSE <<>>) \o GroupRowsFrom(id + 1)

\* line 62: ListGroupsByPattern without the WHERE clause of line 72
ListGroupsByPattern_NoFilter(pattern) ==
    LET w == ParseWildmat(pattern) IN
    IF w.err # "nil" THEN [groups |-> <<>>, err |-> w.err]
    ELSE [groups |-> GroupRowsFrom(1), err |-> "nil"]

\* line 62-73: ListGroupsByPattern
ListGroupsByPattern(pattern) ==
    LET w == ParseWildmat(pattern) IN
    IF w.err # "nil" THEN [groups |-> <<>>, err |-> w.err]
    ELSE LET r == ToRegex(w.w) IN
         IF r.err # "nil" THEN [groups |-> <<>>, err |-> r.err]
         ELSE [groups |-> SelectSeq(GroupRowsFrom(1),
                                    LAMBDA g : regexHelper(r.r, g.group_name)),
               err |-> "nil"]

\* The patterns the caller of ListGroupsByPattern asks with.
Patterns ==
    { << "a", "l", "t", ".", "*", ",", "!", "a", "l", "t", ".", "b", "i", "n", "a", "r", "i", "e", "s", ".", "*" >>,
      << "a", "l", "t", ".", "b", "i", "n", "a", "r", "i", "e", "s", ".", "*", ",", "!", "a", "l", "t", ".", "*" >>,
      << "*" >>,
      << "!", "*" >>,
      << "a", "*", ",", "!", "a", "b" >>,
      << "!", "a", "*", ",", "a", "b" >>,
      << "a", "?" >>,
      << "a" >>,
      << "[", "a", "b", "]" >>,
      << "[", "!", "a", "]", "*" >>,
      << "*", "[", "s", "t", "]", "*", ",", "!", "*", ".", "t", "e", "s", "t" >>,
      << "a", "l", "t", "?", "t", "e", "s", "t" >>,
      << "a", "l", "t", ".", "t", "*", "t" >>,
      << "[", "a", "b" >>,
      << "a", "]" >>,
      << "a", "*", ",", "!", "[", "b" >> }

\* ---------------------------------------------------------------- the reader
ReadArgs == -1..MaxNum
Ready == rd.pc = "idle"
Result(op, gid, low, high, res, err) ==
    [op |-> op, pc |-> "done", g |-> gid, low |-> low, high |-> high,
     res |-> res, i |-> 0, err |-> err, msgid |-> <<>>, after |-> {},
     pattern |-> <<>>]

\* line 75-78
Read_GetArticlesCount ==
    /\ Ready
    /\ \E gid \in GroupIDs :
         rd' = Result("GetArticlesCount", gid, 0, 0, GetArticlesCount(gid), "nil")
    /\ UNCHANGED <<articles, atg, attachments, pc, call, startedAfter, plan, groups>>

\* line 80-83
Read_GetGroupHighWaterMark ==
    /\ Ready
    /\ \E gid \in GroupIDs :
         rd' = Result("GetGroupHighWaterMark", gid, 0, 0, GetGroupHighWaterMark(gid), "nil")
    /\ UNCHANGED <<articles, atg, attachments, pc, call, startedAfter, plan, groups>>

\* line 85-88
Read_GetGroupLowWaterMark ==
    /\ Ready
    /\ \E gid \in GroupIDs :
         rd' = Result("GetGroupLowWaterMark", gid, 0, 0, GetGroupLowWaterMark(gid), "nil")
    /\ UNCHANGED <<articles, atg, attachments, pc, call, startedAfter, plan, groups>>

\* line 165-189
Read_GetArticleNumbers ==
    /\ Ready
    /\ \E gid \in GroupIDs, low \in ReadArgs, high \in ReadArgs :
         rd' = Result("GetArticleNumbers", gid, low, high,
                      GetArticleNumbers(gid, low, high), "nil")
    /\ UNCHANGED <<articles, atg, attachments, pc, call, startedAfter, plan, groups>>

\* line 153-158: the first statement of GetArticleByNumber
Read_GetArticleByNumber ==
    /\ Ready
    /\ \E gid \in GroupIDs, num \in 0..MaxNum :
         LET rows == ByNumberRows(gid, num) IN
         IF rows = <<>>
         THEN rd' = Result("GetArticleByNumber", gid, num, num, <<>>, "sql.ErrNoRows")
         ELSE \E r \in Range(rows) :
                rd' = [Result("GetArticleByNumber", gid, num, num,
                              << Article(r.article_id, num) >>, "nil")
                       EXCEPT !.pc = "attachments"]
    /\ UNCHANGED <<articles, atg, attachments, pc, call, startedAfter, plan, groups>>

\* line 159-162: the attachment list of the article found
Read_GetArticleByNumber_Attachments ==
    /\ rd.pc = "attachments"
    /\ rd' = [rd EXCEPT !.pc = "done",
                        !.res = << [ID |-> rd.res[1].ID,
                                    ArticleNumber |-> rd.res[1].ArticleNumber,
                                    Attachments |-> AttachmentsOf(rd.res[1].ID)] >>]
    /\ UNCHANGED <<articles, atg, attachments, pc, call, startedAfter, plan, groups>>

\* line 191-195: the first statement of GetLastArticleByNum; a.ArticleNumber is num.
Read_GetLastArticleByNum ==
    /\ Ready
    /\ \E gid \in GroupIDs, num \in 0..MaxNum :
         LET rows == LastArticleRows(gid, num) IN
         IF rows = {}
         THEN rd' = Result("GetLastArticleByNum", gid, num, num, <<>>, "sql.ErrNoRows")
         ELSE \E r \in rows :
                rd' = [Result("GetLastArticleByNum", gid, num, num,
                              << Article(r.article_id, 0) >>, "nil")
                       EXCEPT !.pc = "number", !.i = 1]
    /\ UNCHANGED <<articles, atg, attachments, pc, call, startedAfter, plan, groups>>

\* line 202-206: the first statement of GetNextArticleByNum; a.ArticleNumber is num.
Read_GetNextArticleByNum ==
    /\ Ready
    /\ \E gid \in GroupIDs, num \in 0..MaxNum :
         LET rows == NextArticleRows(gid, num) IN
         IF rows = {}
         THEN rd' = Result("GetNextArticleByNum", gid, num, num, <<>>, "sql.ErrNoRows")
         ELSE \E r \in rows :
                rd' = [Result("GetNextArticleByNum", gid, num, num,
                              << Article(r.article_id, 0) >>, "nil")
                       EXCEPT !.pc = "number", !.i = 1]
    /\ UNCHANGED <<articles, atg, attachments, pc, call, startedAfter, plan, groups>>

\* line 213-218: the first statement of GetArticlesByRange
Read_GetArticlesByRange ==
    /\ Ready
    /\ \E gid \in GroupIDs, low \in 0..MaxNum, high \in 0..MaxNum :
         LET rows == RangeRows(gid, low, high)
             res  == [k \in 1..Len(rows) |-> Article(rows[k].article_id, 0)] IN
         rd' = [Result("GetArticlesByRange", gid, low, high, res, "nil")
                EXCEPT !.pc = IF res = <<>> THEN "done" ELSE "number", !.i = 1]
    /\ UNCHANGED <<articles, atg, attachments, pc, call, startedAfter, plan, groups>>

\* line 196-199, 207-210, 219-226: fill in ArticleNumber of entry rd.i
Read_ArticleNumber ==
    /\ rd.pc = "number"
    /\ LET rows == NumberRowsOfArticle(rd.res[rd.i].ID) IN
       IF rows = {}
       THEN rd' = [rd EXCEPT !.pc = "done", !.res = <<>>, !.err = "sql.ErrNoRows"]
       ELSE \E r \in rows :
              rd' = [rd EXCEPT !.res[rd.i].ArticleNumber = r.article_number,
                               !.i = @ + 1,
                               !.pc = IF rd.i < Len(rd.res) THEN "number" ELSE "done"]
    /\ UNCHANGED <<articles, atg, attachments, pc, call, startedAfter, plan, groups>>

\* The caller has taken the result and may read again.
Read_Return ==
    /\ rd.pc = "done"
    /\ rd' = NoRead
    /\ UNCHANGED <<articles, atg, attachments, pc, call, startedAfter, plan, groups>>

\* line 139-143: the first statement of GetArticle.  after is history: the
\* articles whose SaveArticle call had returned when the read was issued.
Read_GetArticle ==
    /\ Ready
    /\ \E id \in 1..(MaxArticles + 1) :
         LET messageID == MessageID(id)
             rows == SelectSeq(articles, LAMBDA a : MessageIDOf(a) = messageID)
             r    == [Result("GetArticle", 0, 0, 0, <<>>, "nil")
                      EXCEPT !.msgid = messageID, !.after = Returned] IN
         IF rows = <<>>
         THEN rd' = [r EXCEPT !.err = "sql.ErrNoRows"]
         ELSE rd' = [r EXCEPT !.pc = "getnumber",
                              !.res = << [ID |-> rows[1].id, ArticleNumber |-> 0,
                                          HeaderRaw |-> rows[1].header] >>]
    /\ UNCHANGED <<articles, atg, attachments, pc, call, startedAfter, plan, groups>>

\* line 144-146: the number of the article, from any of its membership rows
Read_GetArticle_Number ==
    /\ rd.pc = "getnumber"
    /\ LET rows == NumberRowsOfArticle(rd.res[1].ID) IN
       IF rows = {}
       THEN rd' = [rd EXCEPT !.pc = "done", !.err = "sql.ErrNoRows"]
       ELSE \E r \in rows :
              rd' = [rd EXCEPT !.pc = "getattachments",
                               !.res[1].ArticleNumber = r.article_number]
    /\ UNCHANGED <<articles, atg, attachments, pc, call, startedAfter, plan, groups>>

\* line 147-150: the attachment list, and the header parsed from HeaderRaw
Read_GetArticle_Attachments ==
    /\ rd.pc = "getattachments"
    /\ rd' = [rd EXCEPT !.pc = "done",
                        !.res = << [ID |-> rd.res[1].ID,
                                    ArticleNumber |-> rd.res[1].ArticleNumber,
                                    HeaderRaw |-> rd.res[1].HeaderRaw,
                                    Header |-> rd.res[1].HeaderRaw,
                                    Attachments |-> AttachmentsOf(rd.res[1].ID)] >>]
    /\ UNCHANGED <<articles, atg, attachments, pc, call, startedAfter, plan, groups>>

\* line 242-246: GetThread, one statement
Read_GetThread ==
    /\ Ready
    /\ \E gid \in GroupIDs, threadNum \in 1..MaxNum :
         rd' = Result("GetThread", gid, threadNum, 0, GetThread(gid, threadNum), "nil")
    /\ UNCHANGED <<articles, atg, attachments, pc, call, startedAfter, plan, groups>>

\* line 236-240: GetNewThreads, one statement; low holds perPage, high pageNum
Read_GetNewThreads ==
    /\ Ready
    /\ \E gid \in GroupIDs, perPage \in 1..MaxArticles, pageNum \in 0..MaxArticles :
         rd' = Result("GetNewThreads", gid, perPage, pageNum,
                      GetNewThreads(gid, perPage, pageNum), "nil")
    /\ UNCHANGED <<articles, atg, attachments, pc, call, startedAfter, plan, groups>>

\* line 62-73: ListGroupsByPattern; the query of line 72 is one statement
Read_ListGroupsByPattern ==
    /\ Ready
    /\ \E pattern \in Patterns :
         LET out == ListGroupsByPattern(pattern) IN
         rd' = [Result("ListGroupsByPattern", 0, 0, 0, out.groups, out.err)
                EXCEPT !.pattern = pattern]
    /\ UNCHANGED <<articles, atg, attachments, pc, call, startedAfter, plan, groups>>

Read ==
    \/ Read_Return
    \/ Read_GetArticlesCount
    \/ Read_GetGroupHighWaterMark
    \/ Read_GetGroupLowWaterMark
    \/ Read_GetArticleNumbers
    \/ Read_GetArticleByNumber
    \/ Read_GetArticleByNumber_Attachments
    \/ Read_GetLastArticleByNum
    \/ Read_GetNextArticleByNum
    \/ Read_GetArticlesByRange
    \/ Read_ArticleNumber

\* Concurrent SaveArticle calls against a store that may reject any statement.
Next ==
    \E p \in Procs :
        \/ SaveArticle(p, GroupLists, AttLists, BOOLEAN)
        \/ SaveArticle_InsertArticleFails(p)

Spec == Init /\ [][Next]_vars
\* Group lists of the calls that run next to the reader.
ReadGroupLists ==
    { << <<"a">> >>,
      << <<"b">>, <<" ", "a">> >> }

\* Every article of these calls has one attachment.
ReadAttLists == { <<"f1">> }

\* Concurrent SaveArticle calls next to one reading caller.  The store
\* rejects no statement here: what a rejected statement leaves behind is
\* what a call that has not yet issued it shows, and the reader sees that.
NextRead ==
    \/ \E p \in Procs : SaveArticle(p, ReadGroupLists, ReadAttLists, {TRUE})
    \/ Read

SpecRead == Init /\ [][NextRead]_vars
\* Group lists of the calls that run next to GetArticle; one names no group.
GetGroupLists ==
    { <<>>,
      << <<"a">> >>,
      << <<"b">>, <<" ", "a">> >> }

\* Concurrent SaveArticle calls, none rejected by the store, next to a caller
\* of GetArticle.
NextGet ==
    \/ \E p \in Procs : SaveArticle(p, GetGroupLists, AttLists, {TRUE})
    \/ Read_Return
    \/ Read_GetArticle
    \/ Read_GetArticle_Number
    \/ Read_GetArticle_Attachments

SpecGet == Init /\ [][NextGet]_vars

\* Group lists of the calls that run next to GetThread.
ThreadGroupLists ==
    { << <<"a">> >>,
      << <<"b">> >> }

\* Group lists of the calls that run next to GetNewThreads; one names a group
\* twice.
NewThreadGroupLists ==
    { << <<"a">> >>,
      << <<"b">> >>,
      << <<"a">>, <<"a">> >> }

\* The store with either join plan, after SaveArticle has stored a first root
\* article in group "a" and returned.
InitThread ==
    /\ articles = << [id |-> 1, header |-> [MessageId |-> << MessageID(1) >>],
                      thread |-> NULL, created_at |-> 0] >>
    /\ atg = << [article_id |-> 1, article_number |-> 1, group_id |-> 1] >>
    /\ attachments = <<>>
    /\ pc = [p \in Procs |-> "idle"]
    /\ call = [p \in Procs |-> NoCall]
    /\ startedAfter = << {} >>
    /\ rd = NoRead
    /\ plan \in Plans
    /\ groups = GroupsTable({1, 2})

\* A step of a SaveArticle call, of a further root or of a reply to the first
\* article, without attachments and not rejected by the store.  Two articles
\* can be created within one tick of created_at.
SaveArticle_Thread(p, lists) ==
    \/ SaveArticle_InsertArticleOf(p, lists, { <<>> }, { MessageID(1) }, {0, 1},
                                   MaxArticles + 1)
    \/ SaveArticle_GetGroup(p, {TRUE})
    \/ SaveArticle_InsertMembership(p, {TRUE})

\* Concurrent SaveArticle calls next to a caller of GetThread.
NextThread ==
    \/ \E p \in Procs : SaveArticle_Thread(p, ThreadGroupLists)
    \/ Read_Return
    \/ Read_GetThread

SpecThread == InitThread /\ [][NextThread]_vars

\* Concurrent SaveArticle calls next to a caller of GetNewThreads.
NextNewThreads ==
    \/ \E p \in Procs : SaveArticle_Thread(p, NewThreadGroupLists)
    \/ Read_Return
    \/ Read_GetNewThreads

SpecNewThreads == InitThread /\ [][NextNewThreads]_vars

\* An empty store with any of the groups tables.
InitPattern ==
    /\ articles = <<>>
    /\ atg = <<>>
    /\ attachments = <<>>
    /\ pc = [p \in Procs |-> "idle"]
    /\ call = [p \in Procs |-> NoCall]
    /\ startedAfter = <<>>
    /\ rd = NoRead
    /\ plan = "articles"
    /\ groups \in { GroupsTable(ids) : ids \in SUBSET (1..Len(GroupNames)) }

\* A caller of ListGroupsByPattern.
NextPattern ==
    \/ Read_ListGroupsByPattern
    \/ Read_Return

SpecPattern == InitPattern /\ [][NextPattern]_vars

\* ================================================================ properties
\* Row indices of articles_to_groups that belong to a group.
RowIdx(gid) == {k \in 1..Len(atg) : atg[k].group_id = gid}
\* The calls of two articles overlapped: neither had returned when the other started.
Overlap(a, b) == a # b /\ a \notin startedAfter[b] /\ b \notin startedAfter[a]

\* C1: under every interleaving of concurrent SaveArticle calls, no two
\* membership rows of the same group carry the same article number.
C1_UniqueNumbers ==
    \A j, k \in 1..Len(atg) :
        (j # k /\ atg[j].group_id = atg[k].group_id)
            => atg[j].article_number # atg[k].article_number

\* C1 witness: two calls that overlapped have both joined the same group.
C1_Witness ==
    \E j, k \in 1..Len(atg) :
        /\ atg[j].group_id = atg[k].group_id
        /\ Overlap(atg[j].article_id, atg[k].article_id)

\* C2: the numbers present in a group are exactly 1..articlesCount(G): N
\* joins of G, concurrent or not, take the N numbers after the previous
\* maximum, without gaps.
C2_NoGaps ==
    \A gid \in GroupIDs :
        {atg[k].article_number : k \in RowIdx(gid)} = 1..Cardinality(RowIdx(gid))

\* C2 witness: two overlapping calls have joined one group, a third row exists
\* in the other group.
C2_Witness ==
    /\ \E j, k \in RowIdx(1) : Overlap(atg[j].article_id, atg[k].article_id)
    /\ RowIdx(2) # {}

\* What one SaveArticle call has left in the store.
RowsFrom(id) ==
    {k \in 1..Len(articles) : articles[k].id = id}
        \cup {k \in 1..Len(atg) : atg[k].article_id = id}
        \cup {k \in 1..Len(attachments) : attachments[k].article_id = id}

\* C3: a SaveArticle call that returned an error has left no article row, no
\* membership row and no attachment mapping.
C3_AllOrNothing ==
    \A p \in Procs :
        (pc[p] = "done" /\ call[p].err # "nil") => RowsFrom(call[p].articleID) = {}
\* The reader has just issued the first statement of operation op.
Issued(op) == rd.pc = "idle" /\ rd'.op = op
\* The ID column of a result.
IDs(res) == [k \in 1..Len(res) |-> res[k].ID]
\* Group ids a call names: its names trimmed and resolved.
NamedGroups(c) ==
    UNION {{g.id : g \in GetGroup(TrimSpace(c.groups[k]))} : k \in 1..Len(c.groups)}

\* C4: the writes of one SaveArticle call are one atomic unit for readers: a
\* read never returns an article as member of one named group while its
\* membership in another named group, or one of its attachment mappings, is
\* missing.
C4_AtomicForReaders ==
    (rd.op = "GetArticleByNumber" /\ rd.pc = "done" /\ rd.err = "nil") =>
        \A p \in Procs :
            call[p].articleID = rd.res[1].ID =>
                /\ \A gid \in NamedGroups(call[p]) :
                      \E k \in RowIdx(gid) : atg[k].article_id = call[p].articleID
                /\ Len(AttachmentsOf(call[p].articleID)) >= Len(call[p].atts)

\* C5: GetArticleNumbers returns all numbers of G for (0, 0); the single
\* number h if present for (-1, h), which is empty for (-1, -1); the numbers
\* above l for (l, -1); and the open interval l < n < h when both are neither
\* 0 nor -1.
C5_RangeTable ==
    [][Issued("GetArticleNumbers") =>
        LET N   == {atg[k].article_number : k \in RowIdx(rd'.g)}
            l   == rd'.low
            h   == rd'.high
            got == rd'.res IN
        /\ rd'.pc = "done" /\ rd'.err = "nil"
        /\ Len(got) = Cardinality(Range(got))
        /\ (l = 0 /\ h = 0) => Range(got) = N
        /\ (l = -1) => Range(got) = N \cap {h}
        /\ (l \notin {0, -1} /\ h = -1) => Range(got) = {n \in N : n > l}
        /\ (l \notin {0, -1} /\ h \notin {0, -1}) => Range(got) = {n \in N : l < n /\ n < h}
      ]_vars

\* C5 witness: the open interval (1, 3) was asked of a group holding 1 and 2
\* and returned 2 alone.
C5_Witness ==
    /\ rd.op = "GetArticleNumbers" /\ rd.pc = "done"
    /\ rd.low = 1 /\ rd.high = 3 /\ rd.res = <<2>>
    /\ Cardinality(RowIdx(rd.g)) = 2

\* C6: GetArticlesByRange returns the articles with a membership in G whose
\* number n satisfies low <= n <= high, one entry per membership, in strictly
\* ascending order of their number in G.
C6_ClosedRangeAscending ==
    [][/\ Issued("GetArticlesByRange") =>
            LET In  == {k \in RowIdx(rd'.g) : /\ rd'.low <= atg[k].article_number
                                             /\ atg[k].article_number <= rd'.high}
                got == rd'.res IN
            /\ rd'.err = "nil"
            /\ Len(got) = Cardinality(In)
            /\ \A i \in 1..Len(got) :
                 \E k \in In :
                    /\ atg[k].article_id = got[i].ID
                    /\ Cardinality({j \in In : atg[j].article_number
                                                  < atg[k].article_number}) = i - 1
       /\ (rd.op = "GetArticlesByRange" /\ rd.pc = "number") =>
            (rd'.err = "nil" /\ IDs(rd'.res) = IDs(rd.res))
      ]_vars

\* C6 witness: a closed range has returned two articles, bounds included.
C6_Witness ==
    /\ rd.op = "GetArticlesByRange" /\ rd.pc = "done"
    /\ rd.low = 1 /\ rd.high = 2 /\ Len(rd.res) = 2

\* C7: the high watermark is the maximum and the low watermark the minimum
\* number of the group, low <= high when the group has articles, and both are
\* 0 exactly when it has none.
C7_Watermarks ==
    \A gid \in GroupIDs :
        LET N  == {atg[k].article_number : k \in RowIdx(gid)}
            n  == GetArticlesCount(gid)
            hi == GetGroupHighWaterMark(gid)
            lo == GetGroupLowWaterMark(gid) IN
        /\ n = Cardinality(RowIdx(gid))
        /\ n > 0 => /\ hi \in N /\ \A x \in N : x <= hi
                    /\ lo \in N /\ \A x \in N : lo <= x
                    /\ lo <= hi
        /\ (n = 0) <=> (hi = 0)
        /\ (n = 0) <=> (lo = 0)

\* C7 witness: the low watermark of a group with two articles has been read,
\* and the other group is empty.
C7_Witness ==
    /\ rd.op = "GetGroupLowWaterMark" /\ rd.pc = "done" /\ rd.res = 1
    /\ GetGroupHighWaterMark(rd.g) = 2
    /\ \E gid \in GroupIDs : GetArticlesCount(gid) = 0

\* C8: GetNextArticleByNum returns the article with the smallest number of G
\* above the given one, GetLastArticleByNum the one with the largest number
\* below it, and each fails with the no-rows error exactly when there is none.
C8_Neighbours ==
    [][/\ Issued("GetNextArticleByNum") =>
            LET above == {k \in RowIdx(rd'.g) : atg[k].article_number > rd'.low} IN
            IF above = {} THEN rd'.pc = "done" /\ rd'.err = "sql.ErrNoRows"
            ELSE /\ rd'.err = "nil"
                 /\ \E k \in above :
                      /\ atg[k].article_id = rd'.res[1].ID
                      /\ \A j \in above : atg[k].article_number <= atg[j].article_number
       /\ Issued("GetLastArticleByNum") =>
            LET below == {k \in RowIdx(rd'.g) : atg[k].article_number < rd'.low} IN
            IF below = {} THEN rd'.pc = "done" /\ rd'.err = "sql.ErrNoRows"
            ELSE /\ rd'.err = "nil"
                 /\ \E k \in below :
                      /\ atg[k].article_id = rd'.res[1].ID
                      /\ \A j \in below : atg[j].article_number <= atg[k].article_number
       /\ (rd.op \in {"GetNextArticleByNum", "GetLastArticleByNum"} /\ rd.pc = "number") =>
            (rd'.err = "nil" /\ IDs(rd'.res) = IDs(rd.res))
      ]_vars

\* C8 witness: the predecessor of number 3 was found in a group holding 1 and 2.
C8_Witness ==
    /\ rd.op = "GetLastArticleByNum" /\ rd.pc = "done" /\ rd.err = "nil"
    /\ rd.low = 3
    /\ \E k \in RowIdx(rd.g) : atg[k].article_id = rd.res[1].ID /\ atg[k].article_number = 2

\* C9: an article returned by a group-scoped read for G carries the number it
\* holds in G.
C9_NumberOfGroup ==
    (/\ rd.pc = "done" /\ rd.err = "nil"
     /\ rd.op \in {"GetArticlesByRange", "GetLastArticleByNum",
                   "GetNextArticleByNum", "GetArticleByNumber"}) =>
        \A i \in 1..Len(rd.res) :
            \E k \in RowIdx(rd.g) :
                /\ atg[k].article_id = rd.res[i].ID
                /\ atg[k].article_number = rd.res[i].ArticleNumber

\* Articles with a membership in a group.
MembersOf(gid) == {atg[k].article_id : k \in RowIdx(gid)}

IsPrefix(s, t) == Len(s) <= Len(t) /\ SubSeq(t, 1, Len(s)) = s

\* C12: a membership insert gives the article max(numbers of the group) + 1,
\* or 1 in an empty group, computed from that group alone, and leaves the
\* memberships, count and watermarks of every other group unchanged.
C12_IndependentNumbers ==
    [][atg' # atg =>
        /\ Len(atg') = Len(atg) + 1 /\ IsPrefix(atg, atg')
        /\ LET r   == atg'[Len(atg')]
               own == {atg[k].article_number : k \in RowIdx(r.group_id)} IN
           /\ own = {} => r.article_number = 1
           /\ own # {} => /\ r.article_number - 1 \in own
                          /\ \A x \in own : x < r.article_number
           /\ \E p \in Procs : /\ call[p].articleID = r.article_id
                               /\ r.group_id \in NamedGroups(call[p])
           /\ \A gid \in GroupIDs \ {r.group_id} :
                /\ RowsOf(gid)' = RowsOf(gid)
                /\ GetArticlesCount(gid)' = GetArticlesCount(gid)
                /\ GetGroupHighWaterMark(gid)' = GetGroupHighWaterMark(gid)
                /\ GetGroupLowWaterMark(gid)' = GetGroupLowWaterMark(gid)
      ]_vars

\* C12 witness: a cross-posted article holds different numbers in its two groups.
C12_Witness ==
    \E j, k \in 1..Len(atg) :
        /\ atg[j].article_id = atg[k].article_id
        /\ atg[j].group_id # atg[k].group_id
        /\ atg[j].article_number # atg[k].article_number

\* C16: no step removes or alters an article row or a membership row, so a
\* group's high watermark and count never decrease.
C16_AppendOnly ==
    [][/\ IsPrefix(articles, articles')
       /\ IsPrefix(atg, atg')
       /\ \A gid \in GroupIDs :
            /\ GetGroupHighWaterMark(gid)' >= GetGroupHighWaterMark(gid)
            /\ GetArticlesCount(gid)' >= GetArticlesCount(gid)
      ]_vars

\* C16 witness: a second article has joined its second group while the first
\* article's memberships are in the table.
C16_Witness ==
    /\ Len(atg) >= 3
    /\ \E j, k \in 1..Len(atg) : j < k /\ atg[j].article_id = 1 /\ atg[k].article_id = 2

\* C18: when the store rejects the INSERT INTO articles, SaveArticle returns
\* the error to its caller and does not crash.
C18_InsertErrorReturned ==
    \A p \in Procs : pc[p] # "panic"

\* C19: a SaveArticle call that fails with "no such newsgroup" has created no
\* membership row, also not for the names that resolve and precede the bad one.
C19_NoSuchGroupNoMembership ==
    \A p \in Procs :
        (pc[p] = "done" /\ call[p].err = "no such newsgroup")
            => ~ \E k \in 1..Len(atg) : atg[k].article_id = call[p].articleID

\* C19 witness: a call has failed with "no such newsgroup" after its first
\* name resolved to a group that holds an article of another call.
C19_Witness ==
    \E p \in Procs :
        /\ pc[p] = "done" /\ call[p].err = "no such newsgroup"
        /\ RowIdx(1) # {}

\* C20: no two membership rows share the same (article, group) pair.
C20_OneMembershipPerGroup ==
    \A j, k \in 1..Len(atg) :
        (atg[j].article_id = atg[k].article_id /\ atg[j].group_id = atg[k].group_id)
            => j = k
\* C11: GetArticle, asked for the Message-Id of an article whose SaveArticle
\* call had returned success, succeeds and yields the article's header and
\* complete attachment list with a number the article holds in one of its
\* groups; it fails with the no-rows error only for a Message-Id of no such
\* article.  (Under SpecGet every SaveArticle call returns nil.)
C11_RoundTrip ==
    (rd.op = "GetArticle" /\ rd.pc = "done") =>
        \A a \in rd.after :
            MessageID(a) = rd.msgid =>
                /\ rd.err = "nil"
                /\ rd.res[1].ID = a
                /\ rd.res[1].Header = articles[a].header
                /\ rd.res[1].Attachments = AttachmentsOf(a)
                /\ \E k \in 1..Len(atg) :
                      /\ atg[k].article_id = a
                      /\ atg[k].article_number = rd.res[1].ArticleNumber
\* Membership rows of the group whose article is numbered r there.
Holders(gid, r) == {k \in RowIdx(gid) : atg[k].article_number = r}
\* Membership rows of the group whose article's thread field is the
\* Message-Id of the article numbered r in the group.
Replies(gid, r) ==
    {k \in RowIdx(gid) :
        \E h \in Holders(gid, r) :
            articles[atg[k].article_id].thread = MessageID(atg[h].article_id)}
\* Creation time of the article of membership row k.
CreatedOfRow(k) == articles[atg[k].article_id].created_at
\* Creation time of the article numbered n in the group.
CreatedOf(gid, n) == CreatedOfRow(CHOOSE k \in RowIdx(gid) : atg[k].article_number = n)

\* C13: GetThread(G, r) returns, once each, exactly the numbers in G of the
\* memberships of G whose article's thread field is the Message-Id of the
\* article numbered r in G, in ascending order of creation time; r itself is
\* not among them.
C13_GetThread ==
    [][Issued("GetThread") =>
        LET gid == rd'.g
            r   == rd'.low
            res == rd'.res IN
        /\ rd'.err = "nil"
        /\ Range(res) = {atg[k].article_number : k \in Replies(gid, r)}
        /\ Len(res) = Cardinality(Replies(gid, r))
        /\ \A i, j \in 1..Len(res) :
              i < j => CreatedOf(gid, res[i]) <= CreatedOf(gid, res[j])
        /\ r \notin Range(res)]_vars

\* C13 witness: GetThread has returned two replies of which the one created
\* first holds the higher number in the group.
C13_Witness ==
    /\ rd.op = "GetThread" /\ rd.pc = "done"
    /\ Len(rd.res) = 2
    /\ rd.res[1] > rd.res[2]
    /\ CreatedOf(rd.g, rd.res[1]) < CreatedOf(rd.g, rd.res[2])

\* C14 as stated: GetThread(G, r) fails when no article holds number r in G.
C14_NotFound ==
    [][(Issued("GetThread") /\ Holders(rd'.g, rd'.low) = {}) => rd'.err # "nil"]_vars

\* C14: GetThread(G, r) returns the empty sequence and no error when no
\* article holds number r in G, the same result as for an article numbered r
\* in G that has no replies in G.
C14_EmptyForMissingRoot ==
    [][(Issued("GetThread") /\ Replies(rd'.g, rd'.low) = {}) =>
            (rd'.err = "nil" /\ rd'.res = <<>>)]_vars

\* C14 witness: GetThread has returned for a number that no article holds in
\* the group, while the group has root articles.
C14_Witness ==
    /\ rd.op = "GetThread" /\ rd.pc = "done"
    /\ Holders(rd.g, rd.low) = {}
    /\ \E k \in RowIdx(rd.g) : articles[atg[k].article_id].thread = NULL

\* Membership rows of the group whose article is a root (thread NULL).
RootRows(gid) == {k \in RowIdx(gid) : articles[atg[k].article_id].thread = NULL}
\* The sequences that hold every row of S once, newest article first.
RECURSIVE DescOrders(_)
DescOrders(S) ==
    IF S = {} THEN { <<>> }
    ELSE UNION { { <<x>> \o rest : rest \in DescOrders(S \ {x}) } :
                 x \in {y \in S : \A z \in S : CreatedOfRow(z) <= CreatedOfRow(y)} }
\* The articles that hold the numbers of a result in the group, with their
\* page and position.
Listings(gid, perPage, a) ==
    {pos \in (0..Len(atg)) \X (1..perPage) :
        /\ pos[2] <= Len(GetNewThreads(gid, perPage, pos[1]))
        /\ \E k \in RowIdx(gid) :
              /\ atg[k].article_number = GetNewThreads(gid, perPage, pos[1])[pos[2]]
              /\ atg[k].article_id = a}

\* C15, for perPage >= 1 and pageNum >= 0: GetNewThreads(G, perPage, pageNum)
\* returns at most perPage numbers, the numbers in G of positions
\* perPage*pageNum .. perPage*(pageNum+1)-1 of G's root articles ordered
\* newest first; on one store the pages 0, 1, 2, ... list every root article
\* of G exactly once and no other article.
C15_NewThreadPages ==
    /\ [][Issued("GetNewThreads") =>
            LET gid == rd'.g
                perPage == rd'.low
                pageNum == rd'.high
                res == rd'.res IN
            /\ rd'.err = "nil"
            /\ Len(res) <= perPage
            /\ \E ord \in DescOrders(RootRows(gid)) :
                  res = [i \in 1..Len(res) |-> atg[ord[perPage * pageNum + i]].article_number]
            /\ Len(res) = perPage \/ perPage * pageNum + Len(res) >= Cardinality(RootRows(gid))]_vars
    /\ [](\A gid \in GroupIDs, perPage \in 1..MaxArticles, a \in 1..Len(articles) :
            Cardinality(Listings(gid, perPage, a)) =
                IF articles[a].thread = NULL /\ \E k \in RowIdx(gid) : atg[k].article_id = a
                THEN 1 ELSE 0)
\* The wildmat text p matches the whole of s: * stands for any run of
\* characters, ? for one character, [...] for one of the listed characters,
\* [!...] for one character not listed, any other character for itself.
RECURSIVE WildMatch(_, _)
WildMatch(p, s) ==
    IF p = <<>> THEN s = <<>>
    ELSE IF p[1] = "*"
    THEN \E k \in 0..Len(s) : WildMatch(Tail(p), SubSeq(s, k + 1, Len(s)))
    ELSE IF s = <<>> THEN FALSE
    ELSE IF p[1] = "?" THEN WildMatch(Tail(p), Tail(s))
    ELSE IF p[1] = "["
    THEN LET e    == SetMin({k \in 2..Len(p) : p[k] = "]"})
             neg  == p[2] = "!"
             list == SubSeq(p, IF neg THEN 3 ELSE 2, e - 1) IN
         /\ (s[1] \in Range(list)) # neg
         /\ WildMatch(SubSeq(p, e + 1, Len(p)), Tail(s))
    ELSE p[1] = s[1] /\ WildMatch(Tail(p), Tail(s))
\* Every [ of p is followed by its ], and no ] stands alone.
Bracketed(p) ==
    \A k \in 0..Len(p) :
        LET open  == Cardinality({j \in 1..k : p[j] = "["})
            close == Cardinality({j \in 1..k : p[j] = "]"}) IN
        /\ open - close \in {0, 1}
        /\ k = Len(p) => open = close
\* The alternative of the pattern that decides about the name: the last one,
\* read left to right, whose text (after a leading !) matches; 0 when none does.
Deciding(pattern, name) ==
    LET alts == SplitAt(pattern, ",")
        Text(a) == IF a # <<>> /\ a[1] = "!" THEN Tail(a) ELSE a IN
    SetMax({0} \cup {k \in 1..Len(alts) : WildMatch(Text(alts[k]), name)})
\* The name matches the wildmat pattern.
WildmatAccepts(pattern, name) ==
    LET alts == SplitAt(pattern, ",")
        k == Deciding(pattern, name) IN
    k # 0 /\ ~(alts[k] # <<>> /\ alts[k][1] = "!")

====
